---- MODULE Spec2Model ----
(***************************************************************************)
(* State-machine model of silly_media.vram_manager.VRAMManager: the GPU    *)
(* gate (asyncio.Lock), the eviction sweep, the target load, the scoped    *)
(* session of acquire_gpu and the idle-eviction task.                      *)
(*                                                                         *)
(* Granularity: one action is one run of a coroutine between two           *)
(* suspension points of the event loop (async with self._lock when the     *)
(* lock is contended, await asyncio.to_thread(...), await asyncio.sleep,   *)
(* the yield to the caller's body).  The worker thread that executes a     *)
(* unit's load()/unload() is a step of its own (ThreadRun): the unit's     *)
(* is_loaded flips in the thread, before the awaiting coroutine resumes.   *)
(*                                                                         *)
(* Time: time.time() - self._last_used is kept as an age that Tick         *)
(* advances; the code only compares it with idle_timeout and sleeps for    *)
(* the difference, so the age saturates at AgeCap without loss.            *)
(*                                                                         *)
(* Instrumentation variables record what the properties speak about (the   *)
(* latest session, call counters of counting units); the coordinator       *)
(* never reads them.                                                       *)
(***************************************************************************)
EXTENDS Integers, Sequences, FiniteSets, TLC

\* ---- bounds ----
NumCallers == 2      \* concurrent request handlers calling acquire_gpu
NumUnits == 2        \* registered Loadable units
MaxCalls == 3        \* acquire_gpu calls in a run with counting units
IdleTimeout == 2     \* idle_timeout T (ticks) when idle eviction is enabled
MaxShutdowns == 2    \* shutdown() calls in a run
MaxUnregisters == 2  \* unregister() calls in a run
MaxJobs == 2         \* video generation jobs created in a run

Callers == 1..NumCallers
Units == 1..NumUnits         \* the units registered at startup, in
                             \* registration order
Unknown == NumUnits + 1      \* a unit that is not registered (main.py
                             \* registers a wrapper only when available)
Names == Units \cup {Unknown} \* model_name arguments
None == 0                    \* Python None for _current_loaded
IdleId == 0                  \* task id of the idle-check task in the lock queue
AgeCap == IdleTimeout        \* saturation of the ages (at the timeout)

Min(a, b) == IF a < b THEN a ELSE b
Max(a, b) == IF a > b THEN a ELSE b

\* register: "vram = estimated_vram_gb or self.VRAM_ESTIMATES.get(name, 10.0)";
\* estimates are counted in units of the card's memory (_total_vram_gb):
\* none given, one that fits, one that exceeds it
NoEstimate == 0
TotalVram == 1
Estimates == {NoEstimate, TotalVram, TotalVram + 1}
DefaultEstimate(n) == TotalVram
StoredEstimate(n, e) == IF e = NoEstimate THEN DefaultEstimate(n) ELSE e

\* ModelType of the registered units: the first is an image model, the
\* others are video models
ModelTypes == {"image", "video"}
TypeOf(u) == IF u = 1 THEN "image" ELSE "video"

\* the return value of a status operation: the names returned (the name of
\* the ModelInfo for get_model_info), with the operation, its arguments and
\* whether the lock was held when it ran
StatusReply(o, t, n, v, l) ==
    [op |-> o, type |-> t, name |-> n, value |-> v, locked |-> l]

\* no status operation has been called yet
NoReply == StatusReply("none", "none", None, {}, FALSE)

\* routers/video.py: job ids (uuid4, taken as fresh for every job) and
\* VideoStatusResponse.status ("absent": no entry in _jobs)
JobIds == 1..MaxJobs
JobStatuses == {"absent", "queued", "processing", "completed", "failed"}

\* jobs: _jobs[j].status; model: the model_name argument of the job's
\* background task; task: the job a caller's task is running; stage: where that task is
\* ("added": not started; "running": inside acquire_gpu; "saving": awaiting
\* create_video_job); rows: the ids in the video_jobs table; created: the
\* number of jobs created
NoVideo ==
    [jobs |-> [j \in JobIds |-> "absent"],
     model |-> [j \in JobIds |-> None],
     task |-> [c \in Callers |-> None],
     stage |-> [c \in Callers |-> "none"],
     rows |-> {},
     created |-> 0]

VARIABLES
    is_loaded,       \* [Names -> BOOLEAN]  instance.is_loaded
    current_loaded,  \* self._current_loaded : Units or None
    lock_locked,     \* self._lock.locked()
    lock_waiters,    \* FIFO queue of tasks suspended in self._lock.acquire()
    in_use,          \* self._in_use
    idle_timeout,    \* self._idle_timeout
    last_used_age,   \* time.time() - self._last_used (saturating)
    idle_task,       \* state of self._idle_task
    sleep_left,      \* time left of the idle task's asyncio.sleep
    thread,          \* the asyncio.to_thread call in flight
    pc,              \* [Callers -> position of the caller in acquire_gpu]
    req,             \* [Callers -> model_name argument]
    models,          \* keys of self._models
    raising,         \* load(), unload() and the caller's code may raise
    \* ---- instrumentation (not read by the coordinator) ----
    tracing,         \* the sessions and the touches are traced
    counting,        \* the units are instrumented with call counters
    calls,           \* number of acquire_gpu calls made (counting units)
    load_count,      \* [Units -> number of load() executions]
    unload_count,    \* [Units -> number of unload() executions]
    cold_count,      \* [Units -> sessions that followed another model's]
    away_count,      \* [Units -> sessions of another model that followed]
    last,            \* the latest session yielded, see Session
    touch_age,       \* time since the last _touch() (saturating)
    idle_evicted,    \* the idle task started a sweep since the last yield
    deferred,        \* the idle task deferred since the last acquire start
    exit_kind,       \* how the latest acquire_gpu call ended, see Exit
    shut,            \* number of shutdown() calls made
    unregs,          \* number of unregister() calls made
    admin_exit,      \* how the latest shutdown() or unregister() call ended
    estimated_vram_gb, \* [Names -> ModelInfo.estimated_vram_gb of the entry]
    reply,           \* what the latest status operation returned
    trail,           \* what the gate holder has done since it took the gate
    idle_tasks,      \* number of idle tasks neither finished nor cancelled
    video            \* routers/video.py: the jobs and their background tasks

vars == <<is_loaded, current_loaded, lock_locked, lock_waiters, in_use,
          idle_timeout, last_used_age, idle_task, sleep_left, thread, pc, req,
          counting, calls, load_count, unload_count, cold_count, away_count,
          last, touch_age, idle_evicted, deferred, models, raising, tracing, video, admin_exit, estimated_vram_gb,
                   reply, trail, idle_tasks,
          exit_kind, shut, unregs>>

\* asyncio.to_thread(unit.load / unit.unload) awaited by task "owner"
\* done: the call has ended; raised: it ended by raising; resized: the
\* dict self._models changed size while the owner's loop over it is suspended
NoThread == [op |-> "none", unit |-> None, owner |-> None, done |-> FALSE,
             raised |-> FALSE, resized |-> FALSE]
ThreadCall(o, u, t) == [op |-> o, unit |-> u, owner |-> t, done |-> FALSE,
                        raised |-> FALSE, resized |-> FALSE]

\* the ways a call of acquire_gpu ends: the session ran and its body returned
\* ("ok") or raised ("raised"); or nothing was yielded: ValueError for an
\* unknown name, an exception of a unit's unload() or load(), RuntimeError of
\* the sweep's loop over a dict that changed size
ExitKinds == {"ok", "raised", "NotFound", "UnloadFailure", "LoadFailure",
              "SweepError"}

TypeOK ==
    /\ is_loaded \in [Names -> BOOLEAN]
    /\ current_loaded \in Names \cup {None}
    /\ lock_locked \in BOOLEAN
    /\ in_use \in BOOLEAN
    /\ idle_timeout \in {0, IdleTimeout}
    /\ last_used_age \in 0..AgeCap
    /\ touch_age \in 0..AgeCap
    /\ sleep_left \in 0..IdleTimeout
    /\ idle_task \in {"none", "created", "sleeping", "lockwait", "unloading",
                     "cancelling", "done"}
    /\ thread.op \in {"none", "load", "unload"}
    /\ pc \in [Callers -> {"idle", "lockwait", "unloading", "loading", "busy"}]
    /\ req \in [Callers -> Names \cup {None}]
    /\ models \subseteq Names
    /\ raising \in BOOLEAN
    /\ exit_kind \in ExitKinds \cup {"none"}
    /\ shut \in 0..MaxShutdowns
    /\ unregs \in 0..MaxUnregisters
    /\ admin_exit \in {"none", "ok", "raised"}
    /\ estimated_vram_gb \in [Names -> Estimates \ {NoEstimate}]
    /\ idle_tasks \in 0..1
    /\ video.jobs \in [JobIds -> JobStatuses]
    /\ video.model \in [JobIds -> Names \cup {None}]
    /\ video.task \in [Callers -> JobIds \cup {None}]
    /\ video.stage \in [Callers -> {"none", "added", "running", "saving"}]
    /\ video.rows \subseteq JobIds
    /\ video.created \in 0..MaxJobs
    /\ Len(trail) <= NumUnits + 3
    /\ tracing \in BOOLEAN
    /\ counting \in BOOLEAN
    /\ calls \in 0..MaxCalls
    /\ load_count \in [Units -> 0..MaxCalls]
    /\ unload_count \in [Units -> 0..MaxCalls]
    /\ last.name \in Names \cup {None}
    /\ last.prev \in Names \cup {None}

\* ---- pure helpers --------------------------------------------------------

\* faulty variant: the lock is not honoured
LockFreeUnguarded == TRUE

\* faulty variant: a free lock is taken ahead of the tasks queued for it
LockFreeBarging == ~lock_locked

\* asyncio.Lock.acquire() returns without suspending
LockFree == ~lock_locked /\ lock_waiters = <<>>

\* faulty variant: the sweep finds nothing to unload
LoadedModelsNone == {}

\* get_loaded_models / the comprehension at the head of _unload_all
LoadedModels == {u \in models : is_loaded[u]}

\* faulty variants: any resident model passes for the requested one; the
\* resident check never succeeds
IsResidentSloppy(n) == current_loaded # None
IsResidentNever(n) == FALSE

\* faulty variant: every name passes for a registered one
IsRegisteredAny(n) == TRUE

\* _ensure_loaded: "if name not in self._models: raise ValueError"
IsRegistered(n) == n \in models

\* _ensure_loaded: "if model_info.is_loaded and self._current_loaded == name"
IsResident(n) == is_loaded[n] /\ current_loaded = n

\* faulty variant: a model whose estimate exceeds the card's memory is refused
EnsurePathAdmitting(n, e) ==
    IF ~IsRegistered(n) \/ e > TotalVram THEN "NotFound"
    ELSE IF IsResident(n) THEN "resident"
    ELSE IF LoadedModels = {} THEN "load"
    ELSE "sweep"

\* _ensure_loaded up to its first await, for the name n whose entry, if any,
\* holds the estimate e: ValueError, the return at line 154, or the sweep,
\* which with nothing loaded goes on to the load at once.  The estimate is
\* read for the log line 163 only
EnsurePath(n, e) ==
    IF ~IsRegistered(n) THEN "NotFound"
    ELSE IF IsResident(n) THEN "resident"
    ELSE IF LoadedModels = {} THEN "load"
    ELSE "sweep"

\* the sweep's "for name, info in self._models.items(): if info.is_loaded":
\* the next loaded unit at or after position u of the registration order
NextLoaded(u) ==
    LET rest == {v \in models : v >= u /\ is_loaded[v]}
    IN  IF rest = {} THEN None ELSE CHOOSE v \in rest : \A w \in rest : v <= w

\* faulty variant: the sweep forgets to clear _current_loaded
ClearedResidentStale(cur) == cur

\* _unload_all line "self._current_loaded = None"
ClearedResident(cur) == None

\* faulty variant: _touch does not refresh _last_used
TouchedAgeStale(a) == a

\* _touch: self._last_used = time.time() brings the age a back to zero
TouchedAge(a) == 0

\* faulty variant: the remaining time is one unit short
RemainingShort == idle_timeout - last_used_age - 1

\* _idle_check: remaining = self._idle_timeout - elapsed
Remaining == idle_timeout - last_used_age

\* faulty variant: the early return of _schedule_idle_check is always taken
ScheduleEnabledNever == idle_timeout < 0

\* _schedule_idle_check: returns early when the timeout is disabled,
\* otherwise cancels the pending task and creates a new one
ScheduleEnabled == idle_timeout > 0
ScheduledTask(t) == IF ScheduleEnabled THEN "created" ELSE t
ScheduledSleep(s) == IF ScheduleEnabled THEN 0 ELSE s
\* a cancelled idle task suspended in lock.acquire() leaves the queue
ScheduledWaiters(w) ==
    IF ScheduleEnabled THEN SelectSeq(w, LAMBDA t : t # IdleId) ELSE w

\* _schedule_idle_check lines 251-252: the task self._idle_task refers to is
\* cancelled when it is not done; k is the number of idle tasks that are
\* neither finished nor cancelled
\* faulty variant: the pending task is not cancelled
PendingAfterCancelKept(k, t) == k
PendingAfterCancel(k, t) ==
    IF t \in {"created", "sleeping", "lockwait", "unloading"} THEN k - 1 ELSE k
ScheduledCount(k, t) == IF ScheduleEnabled THEN PendingAfterCancel(k, t) + 1 ELSE k

\* the entries of the gate holder's trail: a unit's unload(), _clear_vram(),
\* a unit's load()
Unloading(u) == [op |-> "unload", unit |-> u]
Clearing == [op |-> "clear", unit |-> None]
Loading(u) == [op |-> "load", unit |-> u]

\* faulty variant: the fast path runs the reclamation pass
FastTrailClearing == <<Clearing>>

\* _ensure_loaded returns at line 154: nothing is called
FastTrail == <<>>

\* faulty variant: no reclamation pass when nothing was loaded
ColdTrailNoClear(n) == <<Loading(n)>>

\* nothing loaded: _unload_all returns at line 178, then _clear_vram() (line
\* 160) and the load (line 166)
ColdTrail(n) == <<Clearing, Loading(n)>>

\* ---- initial states ------------------------------------------------------

\* the record of a yielded session: its model, the model of the session
\* before it, whether this acquire called load(), and whether the idle task
\* started a sweep between the two sessions
NoSession == [name |-> None, prev |-> None, did_load |-> FALSE, evicted |-> FALSE]

\* VRAMManager.__init__ followed by the registrations of lifespan(); the
\* idle timeout has been configured by set_idle_timeout(t); k tells whether
\* the registered units count their load()/unload() calls, r whether the
\* units' load()/unload() and the callers' code may raise, h whether the
\* sessions and touches are traced
InitWith(t, k, r, h) ==
    /\ is_loaded = [u \in Names |-> FALSE]
    /\ current_loaded = None
    /\ lock_locked = FALSE
    /\ lock_waiters = <<>>
    /\ in_use = FALSE
    /\ idle_timeout = t
    /\ last_used_age = AgeCap
    /\ idle_task = "none"
    /\ sleep_left = 0
    /\ thread = NoThread
    /\ pc = [c \in Callers |-> "idle"]
    /\ req = [c \in Callers |-> None]
    /\ tracing = h
    /\ counting = k
    /\ calls = 0
    /\ load_count = [u \in Units |-> 0]
    /\ unload_count = [u \in Units |-> 0]
    /\ cold_count = [u \in Units |-> 0]
    /\ away_count = [u \in Units |-> 0]
    /\ last = NoSession
    /\ touch_age = AgeCap
    /\ idle_evicted = FALSE
    /\ deferred = FALSE
    /\ models = Units
    /\ raising = r
    /\ exit_kind = "none"
    /\ shut = 0
    /\ unregs = 0
    /\ admin_exit = "none"
    /\ estimated_vram_gb = [n \in Names |-> StoredEstimate(n, NoEstimate)]
    /\ reply = NoReply
    /\ trail = <<>>
    /\ idle_tasks = 0
    /\ video = NoVideo

Init == InitWith(IdleTimeout, FALSE, FALSE, TRUE)

\* ---- routers/video.py: what a job's background task does to _jobs --------

\* the job that caller c's task is running, None for a plain handler
JobOf(c) == video.task[c]

\* the task of c may call acquire_gpu(n): a plain handler with any name, a
\* job's task that has not started with the model of its job
JobCallable(c, n) ==
    \/ JobOf(c) = None
    \/ video.stage[c] = "added" /\ n = video.model[JobOf(c)]

\* _run_t2v_job / _run_i2v_job up to acquire_gpu: _jobs[job_id].status =
\* "processing" (lines 146, 193)
JobStarted(c) ==
    IF JobOf(c) # None /\ video.stage[c] = "added"
      THEN [video EXCEPT !.jobs[JobOf(c)] = "processing", !.stage[c] = "running"]
      ELSE video

\* faulty variant: the handler records the failure as a completion
JobFailedStatusCompleted == "completed"

\* "except Exception" (lines 182-186, 229-233): status = "failed"
JobFailedStatus == "failed"

\* the task of c ends with status st for its job
JobEnded(c, st) ==
    IF JobOf(c) = None THEN video
    ELSE [video EXCEPT !.jobs[JobOf(c)] = st, !.task[c] = None,
                       !.stage[c] = "none"]

\* the session of c's task ended the way k: an exception of the inference
\* reaches "except Exception"; otherwise the task goes on to
\* "await create_video_job(...)"
JobReleased(c, k) ==
    IF JobOf(c) = None THEN video
    ELSE IF k = "raised" THEN JobEnded(c, JobFailedStatus)
    ELSE [video EXCEPT !.stage[c] = "saving"]

\* ---- acquire_gpu ---------------------------------------------------------

Session(n, l) ==
    [name |-> n, prev |-> last.name, did_load |-> l, evicted |-> idle_evicted]

\* the value v of a traced instrumentation variable whose value was old
Traced(v, old) == IF tracing THEN v ELSE old

\* the yield of unit n to the caller, as seen by the instrumentation
Yielded(n, l) ==
    /\ last' = Traced(Session(n, l), last)
    /\ idle_evicted' = Traced(FALSE, idle_evicted)
    /\ IF counting /\ last.name # n
         THEN /\ cold_count' = [cold_count EXCEPT ![n] = @ + 1]
              /\ away_count' = IF last.name = None THEN away_count
                               ELSE [away_count EXCEPT ![last.name] = @ + 1]
         ELSE UNCHANGED <<cold_count, away_count>>
NotYielded == UNCHANGED <<last, idle_evicted, cold_count, away_count>>

\* an exception of kind k leaves acquire_gpu before the yield: it passes
\* through "async with self._lock", which releases the lock, and reaches the
\* caller.  The try/finally (lines 138-142) has not been entered: _in_use
\* and the idle task are left as they are.  In a video job's task the
\* exception is caught by the job's "except Exception"
Raised(c, k) ==
    /\ lock_locked' = FALSE
    /\ pc' = [pc EXCEPT ![c] = "idle"]
    /\ req' = [req EXCEPT ![c] = None]
    /\ exit_kind' = k
    /\ trail' = Traced(<<>>, trail)
    /\ video' = JobEnded(c, JobFailedStatus)
    /\ NotYielded

\* faulty variant: _in_use is not set on entry
EnteredInUseLate(b) == b

\* acquire_gpu line 135, right after the lock is taken: "self._in_use = True"
EnteredInUse(b) == TRUE

\* acquire_gpu from the moment the lock is held up to the first suspension:
\* _in_use = True, _touch(), then _ensure_loaded either raises ValueError (the
\* name is not registered), or returns at once (the model is resident: the
\* unit is yielded), or starts the sweep's first unload in a thread, or
\* (nothing loaded: _unload_all returns before clearing _current_loaded)
\* starts the target's load in a thread.
\* w is the lock's queue after the caller has left it.
Enter(c, n, w) ==
    /\ in_use' = EnteredInUse(in_use)
    /\ last_used_age' = TouchedAge(last_used_age)
    /\ touch_age' = Traced(0, touch_age)
    /\ idle_task' = ScheduledTask(idle_task)
    /\ idle_tasks' = ScheduledCount(idle_tasks, idle_task)
    /\ sleep_left' = ScheduledSleep(sleep_left)
    /\ lock_waiters' = ScheduledWaiters(w)
    /\ deferred' = Traced(FALSE, deferred)
    /\ IF EnsurePath(n, estimated_vram_gb[n]) = "NotFound"
         THEN /\ Raised(c, "NotFound")
              /\ thread' = thread
         ELSE /\ lock_locked' = TRUE
              /\ req' = [req EXCEPT ![c] = n]
              /\ exit_kind' = "none"
              /\ video' = JobStarted(c)
              /\ IF EnsurePath(n, estimated_vram_gb[n]) = "resident"
                   THEN /\ pc' = [pc EXCEPT ![c] = "busy"]
                        /\ Yielded(n, FALSE)
                        /\ thread' = thread
                        /\ trail' = Traced(FastTrail, trail)
                   ELSE IF EnsurePath(n, estimated_vram_gb[n]) = "load"
                   THEN /\ pc' = [pc EXCEPT ![c] = "loading"]
                        /\ thread' = ThreadCall("load", n, c)
                        /\ trail' = Traced(ColdTrail(n), trail)
                        /\ NotYielded
                   ELSE /\ pc' = [pc EXCEPT ![c] = "unloading"]
                        /\ thread' = ThreadCall("unload", NextLoaded(1), c)
                        /\ trail' = Traced(<<Unloading(NextLoaded(1))>>, trail)
                        /\ NotYielded
    /\ UNCHANGED <<is_loaded, current_loaded, idle_timeout, counting,
                   load_count, unload_count, models, raising, tracing, admin_exit, 
                   estimated_vram_gb, reply, shut, unregs>>

\* a handler calls acquire_gpu(n): "async with self._lock" either takes the
\* free lock and goes on, or queues the caller
AcquireCall(c, n) ==
    /\ pc[c] = "idle"
    /\ JobCallable(c, n)
    /\ counting => calls < MaxCalls
    /\ calls' = IF counting THEN calls + 1 ELSE calls
    /\ IF LockFree
         THEN Enter(c, n, lock_waiters)
         ELSE /\ lock_waiters' = Append(lock_waiters, c)
              /\ pc' = [pc EXCEPT ![c] = "lockwait"]
              /\ req' = [req EXCEPT ![c] = n]
              /\ video' = JobStarted(c)
              /\ NotYielded
              /\ UNCHANGED <<is_loaded, current_loaded, lock_locked, in_use,
                             idle_timeout, last_used_age, idle_task, sleep_left,
                             thread, counting, load_count, unload_count,
                             touch_age, deferred, models, raising, tracing, admin_exit, estimated_vram_gb,
                   reply, trail, idle_tasks, exit_kind,
                             shut, unregs>>

\* the released lock wakes its first waiter, which takes the lock
AcquireWake(c) ==
    /\ pc[c] = "lockwait"
    /\ ~lock_locked
    /\ lock_waiters # <<>>
    /\ Head(lock_waiters) = c
    /\ Enter(c, req[c], Tail(lock_waiters))
    /\ UNCHANGED calls

\* the outcomes of a unit's call: it returns, or (raising units) it raises
Outcomes == IF raising THEN BOOLEAN ELSE {FALSE}

\* unit.is_loaded after unit.load(): the units set self._loaded = True as
\* their last statement, so a load() that raises leaves the flag as it was
AfterLoad(b, r) == IF r THEN {b} ELSE {TRUE}

\* unit.is_loaded after unit.unload(): some units clear self._loaded before the
\* statements that can raise (llm/huihui_qwen.py), some after them
\* (models/ovis_image.py): an unload() that raises leaves either value
AfterUnload(b, r) == IF r THEN {b, FALSE} ELSE {FALSE}

\* the worker thread of asyncio.to_thread executes the unit's load()/unload()
ThreadRun ==
    /\ thread.op # "none"
    /\ ~thread.done
    /\ \E r \in Outcomes :
        /\ thread' = [thread EXCEPT !.done = TRUE, !.raised = r]
        /\ IF thread.op = "load"
             THEN /\ \E f \in AfterLoad(is_loaded[thread.unit], r) :
                        is_loaded' = [is_loaded EXCEPT ![thread.unit] = f]
                  /\ load_count' = IF counting
                                     THEN [load_count EXCEPT ![thread.unit] = @ + 1]
                                     ELSE load_count
                  /\ UNCHANGED unload_count
             ELSE /\ \E f \in AfterUnload(is_loaded[thread.unit], r) :
                        is_loaded' = [is_loaded EXCEPT ![thread.unit] = f]
                  /\ unload_count' = IF counting
                                       THEN [unload_count EXCEPT ![thread.unit] = @ + 1]
                                       ELSE unload_count
                  /\ UNCHANGED load_count
    /\ NotYielded
    /\ UNCHANGED <<current_loaded, lock_locked, lock_waiters, in_use,
                   idle_timeout, last_used_age, idle_task, sleep_left, pc, req,
                   counting, calls, touch_age, deferred, models, raising, tracing, video, admin_exit, estimated_vram_gb,
                   reply, trail, idle_tasks,
                   exit_kind, shut, unregs>>

\* the kind of exception with which "await asyncio.to_thread(unit.unload)"
\* and the loop around it go on: the unload's own exception, or RuntimeError
\* of the dict iterator when self._models changed size meanwhile; "none" when
\* the loop continues
SweepError(t) ==
    IF t.raised THEN "UnloadFailure"
    ELSE IF t.resized THEN "SweepError"
    ELSE "none"

\* _unload_all resumes after an unload.  The unload raised, or the dict
\* changed size: the exception leaves _unload_all (no handler), _ensure_loaded
\* and acquire_gpu.  Otherwise the loop goes on to the next loaded unit, or
\* ends: _current_loaded = None, _clear_vram(), and the target's load starts
\* in a thread
UnloadResume(c) ==
    /\ pc[c] = "unloading"
    /\ thread.op = "unload"
    /\ thread.done
    /\ IF SweepError(thread) # "none"
         THEN /\ Raised(c, SweepError(thread))
              /\ thread' = NoThread
              /\ UNCHANGED current_loaded
         ELSE /\ LET nxt == NextLoaded(thread.unit + 1)
                 IN  IF nxt # None
                       THEN /\ thread' = ThreadCall("unload", nxt, c)
                            /\ trail' = Traced(Append(trail, Unloading(nxt)), trail)
                            /\ UNCHANGED <<current_loaded, pc>>
                       ELSE /\ current_loaded' = ClearedResident(current_loaded)
                            /\ thread' = ThreadCall("load", req[c], c)
                            /\ trail' = Traced(trail \o <<Clearing, Loading(req[c])>>,
                                                trail)
                            /\ pc' = [pc EXCEPT ![c] = "loading"]
              /\ NotYielded
              /\ UNCHANGED <<lock_locked, req, exit_kind, video>>
    /\ UNCHANGED <<is_loaded, lock_waiters, in_use, idle_timeout,
                   last_used_age, idle_task, sleep_left, counting, calls,
                   load_count, unload_count, touch_age, deferred, models,
                   raising, tracing, admin_exit, 
                   estimated_vram_gb, reply, idle_tasks, shut, unregs>>

\* _ensure_loaded resumes after the load.  The load raised: the exception
\* leaves _ensure_loaded before "_current_loaded = name" and leaves
\* acquire_gpu.  Otherwise _current_loaded = name, the unit is returned and
\* yielded to the caller
LoadResume(c) ==
    /\ pc[c] = "loading"
    /\ thread.op = "load"
    /\ thread.done
    /\ thread' = NoThread
    /\ IF thread.raised
         THEN /\ Raised(c, "LoadFailure")
              /\ UNCHANGED current_loaded
         ELSE /\ current_loaded' = req[c]
              /\ pc' = [pc EXCEPT ![c] = "busy"]
              /\ Yielded(req[c], TRUE)
              /\ trail' = trail
              /\ UNCHANGED <<lock_locked, req, exit_kind, video>>
    /\ UNCHANGED <<is_loaded, lock_waiters, in_use, idle_timeout,
                   last_used_age, idle_task, sleep_left, counting, calls,
                   load_count, unload_count, touch_age, deferred, models,
                   raising, tracing, admin_exit, 
                   estimated_vram_gb, reply, idle_tasks, shut, unregs>>

\* the ways the caller's body can end: it returns, or (raising code) raises
ExitWays == {"ok", "raised"}
BodyExits == IF raising THEN ExitWays ELSE {"ok"}

\* faulty variant: the finally block leaves _in_use as it is
ExitInUseKept(b) == b

\* finally: "self._in_use = False"
ExitInUse(b) == FALSE

\* faulty variant: a session whose body raised evicts its model
ExitResidentEvicting(cur, k) == IF k = "raised" THEN None ELSE cur

\* finally: _current_loaded is not assigned, whichever way the body ended
ExitResident(cur, k) == cur

\* scope exit: the caller's body has returned or raised (k); finally:
\* _in_use = False, _touch(); the lock is released; the body's exception, if
\* any, goes on to the caller
Release(c, k) ==
    /\ pc[c] = "busy"
    /\ k \in BodyExits
    /\ in_use' = ExitInUse(in_use)
    /\ current_loaded' = ExitResident(current_loaded, k)
    /\ last_used_age' = TouchedAge(last_used_age)
    /\ touch_age' = Traced(0, touch_age)
    /\ idle_task' = ScheduledTask(idle_task)
    /\ idle_tasks' = ScheduledCount(idle_tasks, idle_task)
    /\ trail' = Traced(<<>>, trail)
    /\ sleep_left' = ScheduledSleep(sleep_left)
    /\ lock_waiters' = ScheduledWaiters(lock_waiters)
    /\ lock_locked' = FALSE
    /\ pc' = [pc EXCEPT ![c] = "idle"]
    /\ req' = [req EXCEPT ![c] = None]
    /\ exit_kind' = k
    /\ video' = JobReleased(c, k)
    /\ NotYielded
    /\ UNCHANGED <<is_loaded, idle_timeout, thread, counting, calls,
                   load_count, unload_count, deferred, models, raising, tracing, admin_exit, 
                   estimated_vram_gb, reply, shut, unregs>>

\* ---- _idle_check ---------------------------------------------------------

\* one iteration of the "while True" loop: the task's first run, or its wake-up
\* from asyncio.sleep.  remaining <= 0 and in use: _last_used is reset and the
\* task sleeps a full timeout.  remaining <= 0 and not in use: with something
\* loaded it takes the lock (or queues for it) and starts _unload_all, with
\* nothing loaded it returns.  remaining > 0: it sleeps for the remaining time.
IdleRun ==
    /\ \/ idle_task = "created"
       \/ idle_task = "sleeping" /\ sleep_left = 0
    /\ IF Remaining <= 0
         THEN IF in_use
           THEN /\ last_used_age' = 0
                /\ sleep_left' = idle_timeout
                /\ idle_task' = "sleeping"
                /\ deferred' = Traced(TRUE, deferred)
                /\ UNCHANGED <<lock_locked, lock_waiters, thread, idle_evicted>>
           ELSE IF LoadedModels # {}
           THEN IF LockFree
             THEN /\ lock_locked' = TRUE
                  /\ thread' = ThreadCall("unload", NextLoaded(1), IdleId)
                  /\ idle_task' = "unloading"
                  /\ idle_evicted' = Traced(TRUE, idle_evicted)
                  /\ UNCHANGED <<lock_waiters, last_used_age, sleep_left,
                                 deferred>>
             ELSE /\ lock_waiters' = Append(lock_waiters, IdleId)
                  /\ idle_task' = "lockwait"
                  /\ UNCHANGED <<lock_locked, thread, idle_evicted,
                                 last_used_age, sleep_left, deferred>>
           ELSE /\ idle_task' = "done"
                /\ UNCHANGED <<lock_locked, lock_waiters, thread, idle_evicted,
                               last_used_age, sleep_left, deferred>>
         ELSE /\ sleep_left' = Remaining
              /\ idle_task' = "sleeping"
              /\ UNCHANGED <<lock_locked, lock_waiters, thread, idle_evicted,
                             last_used_age, deferred>>
    /\ idle_tasks' = IF idle_task' = "done" THEN idle_tasks - 1 ELSE idle_tasks
    /\ UNCHANGED <<is_loaded, current_loaded, in_use, idle_timeout, pc, req,
                   calls, load_count, unload_count, last, counting, cold_count,
                   away_count, touch_age, models, raising, tracing, video, admin_exit, 
                   estimated_vram_gb, reply, trail, exit_kind, shut,
                   unregs>>

\* the idle task, queued for the lock, is woken as first waiter: it takes the
\* lock and runs _unload_all (which returns at once when nothing is loaded)
IdleLockWake ==
    /\ idle_task = "lockwait"
    /\ ~lock_locked
    /\ lock_waiters # <<>>
    /\ Head(lock_waiters) = IdleId
    /\ lock_waiters' = Tail(lock_waiters)
    /\ IF LoadedModels = {}
         THEN /\ idle_task' = "done"
              /\ UNCHANGED <<lock_locked, thread, idle_evicted>>
         ELSE /\ lock_locked' = TRUE
              /\ thread' = ThreadCall("unload", NextLoaded(1), IdleId)
              /\ idle_task' = "unloading"
              /\ idle_evicted' = Traced(TRUE, idle_evicted)
    /\ idle_tasks' = IF idle_task' = "done" THEN idle_tasks - 1 ELSE idle_tasks
    /\ UNCHANGED <<is_loaded, current_loaded, in_use, idle_timeout,
                   last_used_age, sleep_left, pc, req, calls, load_count,
                   unload_count, last, counting, cold_count, away_count,
                   touch_age, deferred, models, raising, tracing, video, admin_exit, 
                   estimated_vram_gb, reply, trail, exit_kind, shut,
                   unregs>>

\* the idle task's _unload_all resumes after an unload.  The unload raised, or
\* the dict changed size: the exception leaves _unload_all and "async with"
\* (the lock is released) and ends the task (_idle_check handles only
\* CancelledError).  Otherwise: next loaded unit, or _current_loaded = None,
\* _clear_vram(), the lock is released, the task ends
IdleUnloadResume ==
    /\ idle_task = "unloading"
    /\ thread.op = "unload"
    /\ thread.done
    /\ IF SweepError(thread) # "none"
         THEN /\ thread' = NoThread
              /\ lock_locked' = FALSE
              /\ idle_task' = "done"
              /\ UNCHANGED current_loaded
         ELSE LET nxt == NextLoaded(thread.unit + 1)
              IN  IF nxt # None
                    THEN /\ thread' = ThreadCall("unload", nxt, IdleId)
                         /\ UNCHANGED <<current_loaded, lock_locked, idle_task>>
                    ELSE /\ current_loaded' = ClearedResident(current_loaded)
                         /\ thread' = NoThread
                         /\ lock_locked' = FALSE
                         /\ idle_task' = "done"
    /\ idle_tasks' = IF idle_task' = "done" THEN idle_tasks - 1 ELSE idle_tasks
    /\ UNCHANGED <<is_loaded, lock_waiters, in_use, idle_timeout, last_used_age,
                   sleep_left, pc, req, calls, load_count, unload_count, last,
                   counting, cold_count, away_count, touch_age, idle_evicted,
                   deferred, models, raising, tracing, video, admin_exit, 
                   estimated_vram_gb, reply, trail, exit_kind, shut, unregs>>

\* the idle task was cancelled (by shutdown) while its sweep awaited an unload:
\* when the task next runs, CancelledError is raised at the await, leaves
\* _unload_all before "_current_loaded = None" and "async with" (the lock is
\* released) and is caught at line 294.  The worker thread is not interrupted;
\* its unit has been unloaded by shutdown itself, so it changes nothing more
IdleCancelRun ==
    /\ idle_task = "cancelling"
    /\ idle_task' = "done"
    /\ lock_locked' = FALSE
    /\ thread' = NoThread
    /\ UNCHANGED <<is_loaded, current_loaded, lock_waiters, in_use,
                   idle_timeout, last_used_age, sleep_left, pc, req, calls,
                   load_count, unload_count, last, counting, cold_count,
                   away_count, touch_age, idle_evicted, deferred, models,
                   raising, tracing, video, admin_exit, estimated_vram_gb,
                   reply, trail, idle_tasks, exit_kind, shut, unregs>>

\* ---- time ----------------------------------------------------------------

\* one unit of wall-clock time passes
Tick ==
    /\ last_used_age' = Min(last_used_age + 1, AgeCap)
    /\ touch_age' = Traced(Min(touch_age + 1, AgeCap), touch_age)
    /\ sleep_left' = Max(sleep_left - 1, 0)
    /\ UNCHANGED <<is_loaded, current_loaded, lock_locked, lock_waiters, in_use,
                   idle_timeout, idle_task, thread, pc, req, calls, load_count,
                   unload_count, last, counting, cold_count, away_count,
                   idle_evicted, deferred, models, raising, tracing, video, admin_exit, estimated_vram_gb,
                   reply, trail, idle_tasks, exit_kind, shut,
                   unregs>>

\* ---- set_idle_timeout, shutdown, unregister ------------------------------

\* faulty variant: set_idle_timeout(0) cancels an idle task that is waiting
\* to run or asleep
SetIdleTimeoutCancelling(t) ==
    /\ idle_timeout' = t
    /\ idle_task' = IF t = 0 /\ idle_task \in {"created", "sleeping"}
                      THEN "done" ELSE idle_task
    /\ idle_tasks' = IF t = 0 /\ idle_task \in {"created", "sleeping"}
                       THEN idle_tasks - 1 ELSE idle_tasks
    /\ UNCHANGED <<is_loaded, current_loaded, lock_locked, lock_waiters, in_use,
                   last_used_age, sleep_left, thread, pc, req,
                   counting, calls, load_count, unload_count, cold_count,
                   away_count, last, touch_age, idle_evicted, deferred, models,
                   raising, tracing, video, admin_exit, estimated_vram_gb,
                   reply, trail, exit_kind, shut, unregs>>

\* set_idle_timeout(t): only the field is assigned; a pending idle task is
\* neither cancelled nor rescheduled
SetIdleTimeout(t) ==
    /\ idle_timeout' = t
    /\ UNCHANGED <<is_loaded, current_loaded, lock_locked, lock_waiters, in_use,
                   last_used_age, idle_task, sleep_left, thread, pc, req,
                   counting, calls, load_count, unload_count, cold_count,
                   away_count, last, touch_age, idle_evicted, deferred, models,
                   raising, tracing, video, admin_exit, estimated_vram_gb,
                   reply, trail, idle_tasks, exit_kind, shut, unregs>>

\* faulty variant: register loads the unit it is given
RegisteredLoadedEager(b) == TRUE

\* register calls nothing on the unit: it reports what it reported
RegisteredLoaded(b) == b

\* register(n, model_type, instance, e): the entry of n is assigned (a new
\* key, or the value of the existing key), with the estimate e or the default
\* when none is given.  The unit is the one known as n.  A sweep that is
\* suspended in its loop over self._models finds the dict changed in size
\* when a key was added
Register(n, e) ==
    /\ models' = models \cup {n}
    /\ estimated_vram_gb' = [estimated_vram_gb EXCEPT ![n] = StoredEstimate(n, e)]
    /\ is_loaded' = [is_loaded EXCEPT ![n] = RegisteredLoaded(@)]
    /\ thread' = IF n \notin models /\ thread.op = "unload"
                   THEN [thread EXCEPT !.resized = TRUE]
                   ELSE thread
    /\ UNCHANGED <<current_loaded, lock_locked, lock_waiters, in_use,
                   idle_timeout, last_used_age, idle_task, sleep_left, pc, req,
                   counting, calls, load_count, unload_count, cold_count,
                   away_count, last, touch_age, idle_evicted, deferred,
                   raising, tracing, video, admin_exit, exit_kind, shut, unregs,
                   reply, trail, idle_tasks>>

\* ---- status operations ---------------------------------------------------

\* faulty variant: a status operation waits for the lock
StatusReadyGated == LockFree

\* the status operations are synchronous and contain no "async with
\* self._lock": they run whenever they are called
StatusReady == TRUE

\* get_loaded_models(): the names whose unit reports loaded
GetLoadedModels ==
    /\ StatusReady
    /\ reply' = StatusReply("get_loaded_models", "none", None, LoadedModels,
                            lock_locked)
    /\ UNCHANGED <<is_loaded, current_loaded, lock_locked, lock_waiters, in_use,
                   idle_timeout, last_used_age, idle_task, sleep_left, thread,
                   pc, req, counting, calls, load_count, unload_count,
                   cold_count, away_count, last, touch_age, idle_evicted,
                   deferred, models, raising, tracing, video, admin_exit, exit_kind,
                   shut, unregs, estimated_vram_gb, trail, idle_tasks>>

\* get_available_models(t): every registered name (t is "none": no type was
\* given), or the registered names of type t
GetAvailableModels(t) ==
    /\ StatusReady
    /\ reply' = StatusReply("get_available_models", t, None,
                            IF t = "none" THEN models
                            ELSE {u \in models : TypeOf(u) = t},
                            lock_locked)
    /\ UNCHANGED <<is_loaded, current_loaded, lock_locked, lock_waiters, in_use,
                   idle_timeout, last_used_age, idle_task, sleep_left, thread,
                   pc, req, counting, calls, load_count, unload_count,
                   cold_count, away_count, last, touch_age, idle_evicted,
                   deferred, models, raising, tracing, video, admin_exit, exit_kind,
                   shut, unregs, estimated_vram_gb, trail, idle_tasks>>

\* get_model_info(n): self._models.get(n), the entry of n or None
GetModelInfo(n) ==
    /\ StatusReady
    /\ reply' = StatusReply("get_model_info", "none", n,
                            IF n \in models THEN {n} ELSE {}, lock_locked)
    /\ UNCHANGED <<is_loaded, current_loaded, lock_locked, lock_waiters, in_use,
                   idle_timeout, last_used_age, idle_task, sleep_left, thread,
                   pc, req, counting, calls, load_count, unload_count,
                   cold_count, away_count, last, touch_age, idle_evicted,
                   deferred, models, raising, tracing, video, admin_exit, exit_kind,
                   shut, unregs, estimated_vram_gb, trail, idle_tasks>>

\* ---- register, unregister, shutdown -------------------------------------

\* faulty variant: the synchronous unload leaves _current_loaded alone
SyncUnloadedResidentStale(cur, n) == cur

\* _unload_model_sync(n) of a loaded unit: "if self._current_loaded == name:
\* self._current_loaded = None"
SyncUnloadedResident(cur, n) == IF cur = n THEN None ELSE cur

\* shutdown: "for name, info in self._models.items(): if info.is_loaded"
ShutdownTargets == {u \in models : is_loaded[u]}

\* shutdown() and unregister() take no lock: their unload() of unit u can run
\* while a worker thread is inside the same unit's unload()
Racing(u) == thread.op = "unload" /\ thread.unit = u /\ ~thread.done

\* whether the synchronous unload() of unit u overlaps the worker thread's:
\* it can when the thread's call has not ended, and need not
Overlaps(u) == IF Racing(u) THEN BOOLEAN ELSE {FALSE}

\* the outcomes of the synchronous unload() of a unit: alone it ends as the
\* unit's unload() does; of two overlapping executions of unload() (both read
\* and delete the same attributes) each can return or raise
SyncOutcomes(o) == IF o THEN BOOLEAN ELSE Outcomes

\* the worker thread's call after the synchronous unload: when they
\* overlapped, it has ended, returning or raising
RacedThread(t, o) ==
    IF o THEN {[t EXCEPT !.done = TRUE, !.raised = r] : r \in BOOLEAN} ELSE {t}

\* task.cancel() of shutdown on the idle task: a task that is waiting (to
\* start, in its sleep, for the lock) ends without running again; a task
\* suspended in its sweep holds the lock until it runs the cancellation; a
\* task that is done is left alone
CancelledTask(t) ==
    IF t \in {"created", "sleeping", "lockwait"} THEN "done"
    ELSE IF t = "unloading" THEN "cancelling"
    ELSE t

\* shutdown(): synchronous, takes no lock: cancels the idle task, then calls
\* _unload_model_sync for every registered unit that reports loaded, in the
\* order of self._models (the unit's unload(), then _current_loaded = None
\* when it names the unit).  Nothing catches an exception of unload(): when
\* the unload() of unit f raises, shutdown() ends there by raising, f is left
\* as its unload() left it and the units after f are not visited
Shutdown ==
    /\ shut < MaxShutdowns
    /\ shut' = shut + 1
    /\ idle_task' = CancelledTask(idle_task)
    /\ idle_tasks' = PendingAfterCancel(idle_tasks, idle_task)
    /\ lock_waiters' = SelectSeq(lock_waiters, LAMBDA t : t # IdleId)
    /\ \E f \in {None} \cup ShutdownTargets :
         \E o \in BOOLEAN :
         \E b \in AfterUnload(TRUE, TRUE) :
           LET returned == {u \in ShutdownTargets : f = None \/ u < f}
               called == returned \cup (ShutdownTargets \cap {f})
           IN /\ o \in UNION {Overlaps(u) : u \in called} \cup {FALSE}
              /\ f # None => TRUE \in SyncOutcomes(o /\ Racing(f))
              /\ is_loaded' = [u \in Names |->
                                 IF u \in returned THEN FALSE
                                 ELSE IF u = f THEN b
                                 ELSE is_loaded[u]]
              /\ current_loaded' =
                    IF current_loaded \in returned
                      THEN SyncUnloadedResident(current_loaded, current_loaded)
                      ELSE current_loaded
              /\ admin_exit' = IF f = None THEN "ok" ELSE "raised"
              /\ thread' \in RacedThread(thread, o)
    /\ UNCHANGED <<lock_locked, in_use, idle_timeout, last_used_age, sleep_left,
                   pc, req, counting, calls, load_count, unload_count,
                   cold_count, away_count, last, touch_age, idle_evicted,
                   deferred, models, raising, tracing, video, exit_kind, unregs,
                   estimated_vram_gb, reply, trail>>

\* unregister(n): a registered name's unit is unloaded synchronously when it
\* reports loaded, then the entry is deleted; an unknown name is ignored.
\* When the unit's unload() raises, unregister() raises before the del and the
\* entry stays.  A sweep that is suspended in its loop over self._models finds
\* the dict changed in size when it resumes
Unregister(n) ==
    /\ unregs < MaxUnregisters
    /\ unregs' = unregs + 1
    /\ IF IsRegistered(n)
         THEN \E o \in (IF is_loaded[n] THEN Overlaps(n) ELSE {FALSE}) :
              \E r \in (IF is_loaded[n] THEN SyncOutcomes(o) ELSE {FALSE}) :
              \E b \in AfterUnload(is_loaded[n], r) :
              \E t \in RacedThread(thread, o) :
                /\ is_loaded' = [is_loaded EXCEPT ![n] = b]
                /\ current_loaded' = IF is_loaded[n] /\ ~r
                                       THEN SyncUnloadedResident(current_loaded, n)
                                       ELSE current_loaded
                /\ models' = IF r THEN models ELSE models \ {n}
                /\ thread' = IF ~r /\ thread.op = "unload"
                               THEN [t EXCEPT !.resized = TRUE]
                               ELSE t
                /\ admin_exit' = IF r THEN "raised" ELSE "ok"
         ELSE /\ admin_exit' = "ok"
              /\ UNCHANGED <<is_loaded, current_loaded, models, thread>>
    /\ UNCHANGED <<lock_locked, lock_waiters, in_use, idle_timeout,
                   last_used_age, idle_task, sleep_left, pc, req, counting,
                   calls, load_count, unload_count, cold_count, away_count,
                   last, touch_age, idle_evicted, deferred, raising, tracing, video,
                   exit_kind, shut, estimated_vram_gb, reply, trail,
                   idle_tasks>>

\* ---- routers/video.py: jobs ----------------------------------------------

\* every variable of the coordinator and of the instrumentation
manager == <<is_loaded, current_loaded, lock_locked, lock_waiters, in_use,
             idle_timeout, last_used_age, idle_task, sleep_left, thread, pc,
             req, counting, calls, load_count, unload_count, cold_count,
             away_count, last, touch_age, idle_evicted, deferred, models,
             raising, tracing, admin_exit, estimated_vram_gb, reply, trail,
             idle_tasks, exit_kind, shut, unregs>>

\* generate_t2v / generate_i2v for model n, served by the task c (the two
\* endpoints and their background tasks differ only in the method of the
\* unit that the session calls): 404 when n is not an available video model
\* (nothing changes); otherwise a job with a new id is entered in _jobs as
\* "queued" and its background task is added
GenerateVideo(c, n) ==
    /\ pc[c] = "idle"
    /\ JobOf(c) = None
    /\ video.created < MaxJobs
    /\ n \in models /\ TypeOf(n) = "video"
    /\ LET j == video.created + 1
       IN  video' = [video EXCEPT !.jobs[j] = "queued",
                                  !.model[j] = n, !.task[c] = j,
                                  !.stage[c] = "added", !.created = j]
    /\ UNCHANGED manager

\* "await create_video_job(...)" ends: the row is written and the status set
\* to "completed" (lines 173, 220), or the call raised and "except Exception"
\* sets "failed"
SaveResume(c) ==
    /\ JobOf(c) # None
    /\ video.stage[c] = "saving"
    /\ \E r \in Outcomes :
         video' = IF r THEN JobEnded(c, JobFailedStatus)
                  ELSE [JobEnded(c, "completed") EXCEPT
                            !.rows = @ \cup {JobOf(c)}]
    /\ UNCHANGED manager

\* ---- specifications ------------------------------------------------------

Next ==
    \/ \E c \in Callers, n \in Units : AcquireCall(c, n)
    \/ \E c \in Callers : AcquireWake(c)
    \/ ThreadRun
    \/ \E c \in Callers : UnloadResume(c)
    \/ \E c \in Callers : LoadResume(c)
    \/ \E c \in Callers, k \in ExitWays : Release(c, k)
    \/ IdleRun
    \/ IdleUnloadResume
    \/ Tick

\* acquire sessions with the idle evictor running (idle_timeout = IdleTimeout)
Spec == Init /\ [][Next]_vars

\* the event loop runs every ready task, worker threads run to completion and
\* time advances; handlers are free to call, to stay in a session, or not
LiveSpec ==
    /\ Init
    /\ [][Next]_vars
    /\ WF_vars(Tick)
    /\ WF_vars(IdleRun)
    /\ WF_vars(IdleUnloadResume)
    /\ WF_vars(ThreadRun)

\* idle eviction disabled: set_idle_timeout(0); no idle task is ever created
InitNoIdle == InitWith(0, TRUE, FALSE, TRUE)

NextNoIdle ==
    \/ \E c \in Callers, n \in Units : AcquireCall(c, n)
    \/ \E c \in Callers : AcquireWake(c)
    \/ ThreadRun
    \/ \E c \in Callers : UnloadResume(c)
    \/ \E c \in Callers : LoadResume(c)
    \/ \E c \in Callers, k \in ExitWays : Release(c, k)

SpecNoIdle == InitNoIdle /\ [][NextNoIdle]_vars

\* units whose load()/unload() may raise, callers whose code may raise and
\* who may ask for a name that is not registered; the idle evictor is running
InitRaising == InitWith(IdleTimeout, FALSE, TRUE, FALSE)

NextRaising ==
    \/ \E c \in Callers, n \in Names : AcquireCall(c, n)
    \/ \E c \in Callers : AcquireWake(c)
    \/ ThreadRun
    \/ \E c \in Callers : UnloadResume(c)
    \/ \E c \in Callers : LoadResume(c)
    \/ \E c \in Callers, k \in ExitWays : Release(c, k)
    \/ IdleRun
    \/ IdleUnloadResume
    \/ Tick

SpecRaising == InitRaising /\ [][NextRaising]_vars

\* the next step of the gate's holder or of the task woken for the free gate;
\* at most one of these is enabled at a time
GateStep ==
    \/ \E c \in Callers : AcquireWake(c)
    \/ ThreadRun
    \/ \E c \in Callers : UnloadResume(c)
    \/ \E c \in Callers : LoadResume(c)
    \/ \E c \in Callers, k \in ExitWays : Release(c, k)
    \/ IdleUnloadResume

\* the same under the event loop's scheduling: a task that is ready to run is
\* run (a woken lock waiter, a coroutine whose thread call has ended), worker
\* threads run their call to its end, and every session's body ends.  Handlers
\* are free to call or not; nothing is assumed of time or of the idle task
\* outside its sweep
LiveRaising ==
    /\ InitRaising
    /\ [][NextRaising]_vars
    /\ WF_vars(GateStep)

\* the state after startup with the idle evictor enabled, nothing traced
InitPlain == InitWith(IdleTimeout, FALSE, FALSE, FALSE)

\* acquire sessions and the idle evictor, with shutdown() called at any point
\* between two steps of the event loop
NextShutdown ==
    \/ \E c \in Callers, n \in Units : AcquireCall(c, n)
    \/ \E c \in Callers : AcquireWake(c)
    \/ ThreadRun
    \/ \E c \in Callers : UnloadResume(c)
    \/ \E c \in Callers : LoadResume(c)
    \/ \E c \in Callers, k \in ExitWays : Release(c, k)
    \/ IdleRun
    \/ IdleUnloadResume
    \/ IdleCancelRun
    \/ Tick
    \/ Shutdown

SpecShutdown == InitPlain /\ [][NextShutdown]_vars

\* the same with units and callers' code that may raise
SpecShutdownRaising == InitRaising /\ [][NextShutdown]_vars

\* acquire sessions and the idle evictor, with set_idle_timeout called at any
\* point with zero or with the positive timeout
NextTimeout ==
    \/ \E c \in Callers, n \in Units : AcquireCall(c, n)
    \/ \E c \in Callers : AcquireWake(c)
    \/ ThreadRun
    \/ \E c \in Callers : UnloadResume(c)
    \/ \E c \in Callers : LoadResume(c)
    \/ \E c \in Callers, k \in ExitWays : Release(c, k)
    \/ IdleRun
    \/ IdleLockWake
    \/ IdleUnloadResume
    \/ Tick
    \/ \E t \in {0, IdleTimeout} : SetIdleTimeout(t)

SpecTimeout == InitPlain /\ [][NextTimeout]_vars

\* the state after startup with idle eviction disabled, nothing traced
InitStatus == InitWith(0, FALSE, FALSE, FALSE)

\* acquire sessions with the status operations called at any point
NextStatus ==
    \/ \E c \in Callers, n \in Units : AcquireCall(c, n)
    \/ \E c \in Callers : AcquireWake(c)
    \/ ThreadRun
    \/ \E c \in Callers : UnloadResume(c)
    \/ \E c \in Callers : LoadResume(c)
    \/ \E c \in Callers, k \in ExitWays : Release(c, k)
    \/ GetLoadedModels
    \/ \E t \in ModelTypes \cup {"none"} : GetAvailableModels(t)
    \/ \E n \in Names : GetModelInfo(n)

SpecStatus == InitStatus /\ [][NextStatus]_vars

\* the names register is called with: one that is registered at startup and
\* one that is not
Registrable == {1, Unknown}

\* acquire sessions and the idle evictor, with register called at any point
\* for a registered or a new name, with any estimate
NextRegister ==
    \/ \E c \in Callers, n \in Names : AcquireCall(c, n)
    \/ \E c \in Callers : AcquireWake(c)
    \/ ThreadRun
    \/ \E c \in Callers : UnloadResume(c)
    \/ \E c \in Callers : LoadResume(c)
    \/ \E c \in Callers, k \in ExitWays : Release(c, k)
    \/ IdleRun
    \/ IdleUnloadResume
    \/ Tick
    \/ \E n \in Registrable, e \in Estimates : Register(n, e)

SpecRegister == InitPlain /\ [][NextRegister]_vars

\* the state after startup with idle eviction disabled, units and callers'
\* code that may raise, nothing traced
InitUnregister == InitWith(0, FALSE, TRUE, FALSE)

\* acquire sessions with unregister called at any point, for registered and
\* for unknown names
NextUnregister ==
    \/ \E c \in Callers, n \in Units : AcquireCall(c, n)
    \/ \E c \in Callers : AcquireWake(c)
    \/ ThreadRun
    \/ \E c \in Callers : UnloadResume(c)
    \/ \E c \in Callers : LoadResume(c)
    \/ \E c \in Callers, k \in ExitWays : Release(c, k)
    \/ \E n \in Names : Unregister(n)

SpecUnregister == InitUnregister /\ [][NextUnregister]_vars

\* a job's background task starts: its first run reaches acquire_gpu
JobStart(c) ==
    /\ JobOf(c) # None
    /\ AcquireCall(c, video.model[JobOf(c)])

\* the model of the other handlers' sessions: the image model
PlainNames == {1}

\* video jobs, and sessions of other handlers on the image model, with units
\* and code that may raise; idle eviction is disabled
NextVideo ==
    \/ \E c \in Callers, n \in PlainNames : JobOf(c) = None /\ AcquireCall(c, n)
    \/ \E c \in Callers : JobStart(c)
    \/ \E c \in Callers : AcquireWake(c)
    \/ ThreadRun
    \/ \E c \in Callers : UnloadResume(c)
    \/ \E c \in Callers : LoadResume(c)
    \/ \E c \in Callers, k \in ExitWays : Release(c, k)
    \/ \E c \in Callers, n \in Names : GenerateVideo(c, n)
    \/ \E c \in Callers : SaveResume(c)

SpecVideo == InitUnregister /\ [][NextVideo]_vars

\* the same under the event loop's scheduling: a task that is ready is run (a
\* background task that was added, a woken lock waiter, a coroutine whose
\* thread call has ended), worker threads run their call to its end, every
\* session's body ends and create_video_job ends (a task that is ready stays
\* ready until it runs).  The other handlers are free to call or not
LiveVideo ==
    /\ InitUnregister
    /\ [][NextVideo]_vars
    /\ WF_vars(GateStep)
    /\ WF_vars(\E c \in Callers : JobStart(c) \/ SaveResume(c))

\* the idle task never obtains the lock after queueing for it: the waiter in
\* front of it is an acquire, whose _touch() cancels the task
IdleNeverWakesFromQueue == ~ENABLED IdleLockWake

\* ---- properties ----------------------------------------------------------

LoadedSet == {u \in Names : is_loaded[u]}
PastGate(c) == pc[c] \in {"unloading", "loading", "busy"}
IdleUnloadInFlight == thread.op = "unload" /\ thread.owner = IdleId

\* the idle task in its sweep holds the lock alone, so no _touch() can cancel
\* it there
IdleSweepHoldsLock ==
    idle_task = "unloading" =>
        /\ lock_locked
        /\ IdleUnloadInFlight
        /\ \A c \in Callers : ~PastGate(c)

\* C1: at no time are two acquire sessions in the Busy phase (between the
\* yield of the unit and the scope exit) together.
C1_MutualExclusion ==
    \A c1, c2 \in Callers : (pc[c1] = "busy" /\ pc[c2] = "busy") => c1 = c2

\* a session is Busy while another acquire waits for the gate
C1_Witness ==
    \E c1, c2 \in Callers : pc[c1] = "busy" /\ pc[c2] = "lockwait"

\* C2: in every reachable state at most one registered unit reports
\* is_loaded = true, so get_loaded_models() never has more than one name.
C2_SingleResidency == Cardinality(LoadedSet) <= 1

\* a second acquire has switched models and its target is loaded
C2_Witness ==
    /\ last.prev \notin {None, last.name}
    /\ LoadedSet = {last.name}

C4_SwitchCorrect ==
    /\ [][\A c \in Callers :
            (/\ pc[c] # "busy"
             /\ pc'[c] = "busy"
             /\ last.name \notin {None, req'[c]})
            => /\ LoadedSet' = {req'[c]}
               /\ last'.name = req'[c]
               /\ last'.prev = last.name]_vars
    /\ [](thread.op = "load" /\ ~thread.done => LoadedSet = {})

\* the second of two sessions on different units is Busy
C4_Witness ==
    /\ last.prev \notin {None, last.name}
    /\ \E c \in Callers : pc[c] = "busy" /\ req[c] = last.name
    /\ ~is_loaded[last.prev]
    /\ is_loaded[last.name]

\* C5 as stated: of two sessions in a row on the same unit (no acquire of
\* another model in between), the second does not call the unit's load().
C5_IdempotentAcquireAlways ==
    (last.name # None /\ last.prev = last.name) => ~last.did_load

\* C5 amended: of two sessions in a row on the same unit, with no acquire of
\* another model and no idle eviction in between, the second does not call
\* the unit's load().
C5_IdempotentAcquire ==
    (last.name # None /\ last.prev = last.name /\ ~last.evicted)
        => ~last.did_load

\* two sessions in a row on one unit, the second one Busy without a load
C5_Witness ==
    /\ last.name # None
    /\ last.prev = last.name
    /\ ~last.evicted
    /\ ~last.did_load
    /\ \E c \in Callers : pc[c] = "busy"

NoSweepOrLoadInFlight == \A c \in Callers : pc[c] \notin {"unloading", "loading"}

\* C6: with idle_timeout = 0 and units whose load/unload succeed, a session
\* calls load() exactly when it is the first session or follows a session of
\* a different model; so each unit's load() has run once per such session of
\* it (cold_count) and never otherwise, and its unload() has run once per
\* session of a different model that followed one of its own (away_count).
C6_LoadUnloadCounts ==
    /\ last.name # None => (last.did_load <=> last.prev # last.name)
    /\ NoSweepOrLoadInFlight =>
          \A u \in Units :
              /\ load_count[u] = cold_count[u]
              /\ unload_count[u] = away_count[u]

\* the scenario alpha, beta, alpha: alpha loaded twice and unloaded once,
\* beta loaded once and unloaded once
C6_Witness ==
    /\ calls = 3
    /\ last.name # None
    /\ last.prev \notin {None, last.name}
    /\ NoSweepOrLoadInFlight
    /\ load_count[last.name] = 2
    /\ unload_count[last.name] = 1
    /\ load_count[last.prev] = 1
    /\ unload_count[last.prev] = 1

\* a session has ended and no acquire call is in progress or waiting
Quiet == last.name # None /\ \A c \in Callers : pc[c] = "idle"
\* every unit reports unloaded and _current_loaded is None
Evicted == LoadedSet = {} /\ current_loaded = None

\* C7: with idle_timeout = T > 0, once a session has ended and while no new
\* acquire occurs, the idle task eventually unloads the resident unit: every
\* unit reports unloaded and _current_loaded is cleared.
C7_IdleEviction == Quiet ~> (Evicted \/ ~Quiet)

\* the idle task has completed a sweep after the last session
C7_Witness ==
    /\ Quiet
    /\ Evicted
    /\ idle_evicted
    /\ idle_task = "done"
    /\ ~deferred

\* C8: an unload() of the idle task runs only when at least idle_timeout has
\* elapsed since the last _touch() (acquire start or session end); and while
\* less than idle_timeout has elapsed since a session's end and no acquire is
\* past the gate, the model of the last session is still resident.
C8_NoEarlyEviction ==
    /\ IdleUnloadInFlight => touch_age >= idle_timeout
    /\ (/\ last.name # None
        /\ touch_age < idle_timeout
        /\ \A c \in Callers : pc[c] \in {"idle", "lockwait", "busy"})
       => IsResident(last.name)

\* an acquire that arrived before the timeout found its model still resident,
\* and after its session the timeout expired and the idle sweep is running
C8_Witness ==
    /\ last.name # None
    /\ last.prev = last.name
    /\ ~last.did_load
    /\ IdleUnloadInFlight
    /\ touch_age >= idle_timeout

\* C9: no unload() issued by the idle task is in flight while a session is in
\* progress (_in_use set, a caller past the gate).
C9_NoEvictionWhileBusy ==
    IdleUnloadInFlight => (~in_use /\ \A c \in Callers : ~PastGate(c))

\* a session has outlasted the timeout, the idle task has deferred and the
\* unit is still loaded
C9_Witness ==
    /\ in_use
    /\ deferred
    /\ touch_age >= idle_timeout
    /\ \E c \in Callers : pc[c] = "busy" /\ IsResident(req[c])

\* C10: when the idle task has deferred because the timeout expired during a
\* session, it sleeps while the session lasts; an idle unload then runs only
\* after that session's release and a full idle_timeout since the release;
\* and once that session has been released, while no new acquire occurs, the
\* eviction eventually happens.
C10_BusyDeferral ==
    /\ []((deferred /\ IdleUnloadInFlight)
            => (~in_use /\ touch_age >= idle_timeout))
    /\ [](deferred /\ in_use => idle_task = "sleeping")
    /\ ((deferred /\ Quiet) ~> (Evicted \/ ~Quiet))

\* the idle task deferred during a session and evicted after its release
C10_Witness ==
    /\ deferred
    /\ Quiet
    /\ Evicted
    /\ idle_evicted
    /\ idle_task = "done"

\* C11 as stated: an unload() that raises during the eviction sweep does not
\* abort the sweep, so no acquire call ends with that exception (the acquire
\* goes on to load its target).
C11_UnloadIsolation == exit_kind # "UnloadFailure"

\* C12: an acquire of a name that is not registered ends with NotFound
\* (ValueError): the name never gets past the registry check (nothing is
\* yielded for it, no load() or unload() is started for it), and the step that
\* fails starts no thread call, changes no unit's loaded state, yields nothing
\* and leaves _current_loaded as it was; a call that waited for the gate with
\* such a name fails in the same way when it gets the gate.
C12_UnknownName ==
    /\ [](\A c \in Callers : PastGate(c) => req[c] \in models)
    /\ [][(exit_kind' = "NotFound" /\ exit_kind # "NotFound")
            => /\ thread' = thread
               /\ is_loaded' = is_loaded
               /\ current_loaded' = current_loaded
               /\ last' = last
               /\ \A c \in Callers : ~PastGate(c)']_vars
    /\ [][\A c \in Callers :
            (pc[c] = "lockwait" /\ req[c] \notin models /\ pc'[c] # "lockwait")
            => /\ exit_kind' = "NotFound"
               /\ pc'[c] = "idle"
               /\ thread' = thread
               /\ is_loaded' = is_loaded
               /\ current_loaded' = current_loaded]_vars

\* an acquire of an unregistered name has failed while a model is resident
C12_Witness ==
    /\ exit_kind = "NotFound"
    /\ current_loaded # None
    /\ is_loaded[current_loaded]
    /\ ~lock_locked

\* C13 as stated: once an acquire has failed for an unknown name (and until
\* the gate is next taken) the gate is free and _in_use is false.
C13_NotFoundNotBusy == exit_kind = "NotFound" => (~lock_locked /\ ~in_use)

\* C14 as stated: once an acquire has failed because the target's load()
\* raised (and until the gate is next taken) the gate is free and
\* _current_loaded is None.
C14_LoadFailureClean ==
    exit_kind = "LoadFailure" => (~lock_locked /\ current_loaded = None)

\* C15: every exit of a session, by the body's return or by an exception of
\* the body, clears _in_use and releases the gate in that step, and leaves the
\* gate so that the next acquire proceeds: a waiting call is first in the
\* queue of a free lock, a new call finds the lock free.
C15_ReleaseOnEveryExit ==
    [][\A c \in Callers :
         (pc[c] = "busy" /\ pc'[c] # "busy")
         => /\ exit_kind' \in {"ok", "raised"}
            /\ ~in_use'
            /\ ~lock_locked'
            /\ \/ lock_waiters' = <<>>
               \/ pc'[Head(lock_waiters')] = "lockwait"]_vars

\* a session has ended by an exception of the body while another call waits
C15_Witness ==
    /\ exit_kind = "raised"
    /\ ~in_use
    /\ ~lock_locked
    /\ lock_waiters # <<>>

\* C16: the exit of a session, by return or by exception, changes neither
\* _current_loaded nor any unit's loaded state and starts no load() or
\* unload(); the model of the session is loaded and resident after it.
C16_ReleaseKeepsResident ==
    [][\A c \in Callers :
         (pc[c] = "busy" /\ pc'[c] # "busy")
         => /\ current_loaded' = current_loaded
            /\ is_loaded' = is_loaded
            /\ thread' = thread
            /\ thread.op = "none"
            /\ current_loaded' = req[c]
            /\ is_loaded'[req[c]]]_vars

\* a session has ended by an exception of the body; its model is resident
C16_Witness ==
    /\ exit_kind = "raised"
    /\ \A c \in Callers : pc[c] = "idle"
    /\ current_loaded # None
    /\ is_loaded[current_loaded]

\* the idle task exists and has not finished: it waits to start, sleeps, waits
\* for the lock or is in its sweep
IdleTaskPending == idle_task \in {"created", "sleeping", "lockwait", "unloading"}

\* C17 as stated: every call of shutdown(), the first one from whatever state
\* the coordinator is in and the calls after it, returns without raising and
\* leaves no registered unit reporting loaded.
C17_ShutdownIdempotent ==
    [][shut' # shut
        => /\ admin_exit' = "ok"
           /\ \A u \in models : ~is_loaded'[u]]_vars

\* C18 as stated: once shutdown() has been called, no unit reports loaded any
\* more and no idle task is pending.
C18_ShutdownTerminal == shut > 0 => (LoadedSet = {} /\ ~IdleTaskPending)

\* C19 as stated implies: while idle_timeout is 0 the idle task never starts
\* an eviction sweep.
C19_ZeroDisablesEviction ==
    [][~(/\ idle_timeout = 0
         /\ idle_task # "unloading"
         /\ idle_task' = "unloading")]_vars

\* the coordinator's state apart from the registry's size and the counters
coordinator ==
    <<is_loaded, current_loaded, lock_locked, lock_waiters, in_use,
      idle_timeout, last_used_age, idle_task, sleep_left, thread, pc, req,
      models>>

\* C20: a call unregister(n) that returns removes at most the entry n.  When
\* it removes it, the unit reports unloaded afterwards, _current_loaded does
\* not name it if the unit was loaded, and no other unit's loaded state
\* changes.  When it removes nothing (n is not registered), nothing in the
\* coordinator changes.  A call that ends by the unit's unload() raising
\* leaves the entry registered.
C20_UnregisterUnloads ==
    [][unregs' # unregs
        => /\ models' \subseteq models
           /\ \A n \in models \ models' :
                 /\ admin_exit' = "ok"
                 /\ models' = models \ {n}
                 /\ ~is_loaded'[n]
                 /\ is_loaded[n] => current_loaded' # n
                 /\ \A u \in Names \ {n} : is_loaded'[u] = is_loaded[u]
           /\ (models' = models /\ admin_exit' = "ok")
                 => coordinator' = coordinator
           /\ admin_exit' = "raised" => models' = models]_vars

\* a model was unregistered while it was loaded and resident for a session
\* that is still in progress
C20_Witness ==
    \E c \in Callers :
        /\ pc[c] = "busy"
        /\ req[c] \notin models
        /\ ~is_loaded[req[c]]
        /\ current_loaded = None

\* C27: a session that was yielded after a load was preceded, since its
\* acquire took the gate, by exactly this: unload() calls of distinct units,
\* then one reclamation pass, then the load() of the requested unit, and
\* nothing else; the reclamation pass runs when no registered unit reports
\* loaded any more, also when none did at the start (the trail is then the
\* pass and the load).
C27_SlowPathOrder ==
    /\ [](\A c \in Callers :
            (pc[c] = "busy" /\ last.did_load)
                => \E k \in 0..NumUnits :
                      /\ Len(trail) = k + 2
                      /\ \A i \in 1..k : trail[i].op = "unload"
                      /\ \A i, j \in 1..k : i # j => trail[i].unit # trail[j].unit
                      /\ trail[k + 1] = Clearing
                      /\ trail[k + 2] = Loading(req[c]))
    /\ [][(/\ Len(trail') > Len(trail)
           /\ \E i \in 1..Len(trail') : i > Len(trail) /\ trail'[i] = Clearing)
            => LoadedModels = {}]_vars

\* a session is in progress that was reached by unloading the model of the
\* session before it, reclaiming and loading
C27_Witness ==
    \E c \in Callers :
        /\ pc[c] = "busy"
        /\ Len(trail) = 3
        /\ trail[1] = Unloading(last.prev)
        /\ trail[3] = Loading(last.name)

\* C28: an acquire that takes the gate while its model is resident and
\* reports loaded yields at once; and every acquire that yields at once has
\* called no unload(), run no reclamation pass, started no thread call and
\* left _current_loaded and the units' loaded states as they were, with
\* _current_loaded naming the requested model.
C28_FastPathSkipsSweep ==
    [][\A c \in Callers :
         /\ (/\ pc[c] \in {"idle", "lockwait"}
             /\ pc'[c] \notin {"idle", "lockwait"}
             /\ IsResident(req'[c]))
                => pc'[c] = "busy"
         /\ (pc[c] \in {"idle", "lockwait"} /\ pc'[c] = "busy")
                => /\ trail' = <<>>
                   /\ thread.op = "none"
                   /\ thread' = thread
                   /\ is_loaded' = is_loaded
                   /\ current_loaded' = current_loaded
                   /\ current_loaded = req'[c]
                   /\ is_loaded[req'[c]]]_vars

\* a session of the resident model was yielded without a load, after a
\* session of the same model, and is still in progress
C28_Witness ==
    \E c \in Callers :
        /\ pc[c] = "busy"
        /\ trail = <<>>
        /\ ~last.did_load
        /\ last.prev = req[c]
        /\ current_loaded = req[c]

\* C29: there is never more than one idle task that is neither finished nor
\* cancelled; and with idle_timeout > 0 every acquire that passes the gate
\* and every session end leaves exactly one, newly created, which is not
\* queued for the lock.
C29_SingleIdleTask ==
    /\ [](idle_tasks <= 1)
    /\ [][\A c \in Callers :
            (/\ idle_timeout > 0
             /\ \/ pc[c] \in {"idle", "lockwait"} /\ PastGate(c)'
                \/ pc[c] = "busy" /\ pc'[c] = "idle")
                => /\ idle_tasks' = 1
                   /\ idle_task' = "created"
                   /\ sleep_left' = 0
                   /\ \A i \in 1..Len(lock_waiters') : lock_waiters'[i] # IdleId]_vars

\* a session has ended: the task scheduled at its start was cancelled and a
\* new one created, the only one pending
C29_Witness ==
    /\ exit_kind = "ok"
    /\ idle_timeout > 0
    /\ idle_task = "created"
    /\ idle_tasks = 1
    /\ \A c \in Callers : pc[c] = "idle"

\* C26: while the idle task is in its sweep it holds the gate, the only thread
\* call in flight is its own unload, and no acquire is in its sweep, its load
\* or its session; an acquire called during the sweep queues for the gate; a
\* sweep that ends has left no registered unit loaded, _current_loaded = None
\* and the gate free; and an acquire leaves the queue only when no idle sweep
\* is running, going straight to its target's load when nothing is loaded.
C26_IdleSweepUnderGate ==
    /\ [](idle_task = "unloading"
            => /\ lock_locked
               /\ thread.op = "unload" /\ thread.owner = IdleId
               /\ \A c \in Callers : ~PastGate(c))
    /\ []((thread.op # "none" /\ thread.owner = IdleId)
            => (idle_task = "unloading" /\ thread.op = "unload"))
    /\ [][\A c \in Callers :
            (idle_task = "unloading" /\ pc[c] = "idle" /\ pc'[c] # "idle")
                => (pc'[c] = "lockwait" /\ thread' = thread)]_vars
    /\ [][(idle_task = "unloading" /\ idle_task' # "unloading")
            => /\ LoadedModels' = {}
               /\ current_loaded' = None
               /\ ~lock_locked'
               /\ thread' = NoThread]_vars
    /\ [][\A c \in Callers :
            (pc[c] = "lockwait" /\ pc'[c] # "lockwait")
                => /\ idle_task # "unloading"
                   /\ LoadedModels = {}
                        => (pc'[c] = "loading"
                            /\ thread' = ThreadCall("load", req[c], c))]_vars

\* an acquire is queued for the gate while the idle task's sweep is unloading
\* the resident model
C26_Witness ==
    /\ idle_task = "unloading"
    /\ thread.op = "unload" /\ thread.owner = IdleId /\ ~thread.done
    /\ \E c \in Callers : pc[c] = "lockwait"

\* C30 as stated: whenever _in_use is true an acquire that is past the gate
\* holds the lock.
C30_BusyOnlyInSession ==
    in_use => (lock_locked /\ \E c \in Callers : PastGate(c))

\* C24: every acquire_gpu call that is waiting for the gate or is in its
\* sweep or load eventually yields its unit (the session starts) or ends by
\* raising, whatever the other callers do.
C24_NoStarvation ==
    \A c \in Callers :
        (pc[c] \in {"lockwait", "unloading", "loading"})
            ~> (pc[c] \in {"busy", "idle"})

\* an acquire is queued for the gate while another acquire, which took the
\* gate before it, is loading its target
C24_Witness ==
    \E c1, c2 \in Callers :
        /\ pc[c1] = "lockwait"
        /\ pc[c2] = "loading"
        /\ lock_waiters = <<c1>>

\* the registry: the keys of self._models and the estimates of the entries
registry == <<models, estimated_vram_gb>>

\* C21: a register call that changes the registry changes the entry of one
\* name only (the key is present afterwards, no key is removed, no other
\* entry's estimate changes); it starts or ends no load() or unload() and
\* leaves every unit's loaded state, _current_loaded, the lock and its queue,
\* _in_use, _last_used, the idle task and its sleep, and every caller as they
\* were.
C21_RegisterFrame ==
    [][registry' # registry
        => /\ \E n \in Names :
                /\ models' = models \cup {n}
                /\ \A u \in Names \ {n} :
                      estimated_vram_gb'[u] = estimated_vram_gb[u]
           /\ is_loaded' = is_loaded
           /\ [thread' EXCEPT !.resized = FALSE] = [thread EXCEPT !.resized = FALSE]
           /\ current_loaded' = current_loaded
           /\ lock_locked' = lock_locked
           /\ lock_waiters' = lock_waiters
           /\ in_use' = in_use
           /\ last_used_age' = last_used_age
           /\ idle_task' = idle_task
           /\ sleep_left' = sleep_left
           /\ idle_tasks' = idle_tasks
           /\ idle_timeout' = idle_timeout
           /\ pc' = pc
           /\ req' = req]_vars

\* a new name has been registered, and the entry of the resident model has
\* been replaced with another estimate, during a session with the idle task
\* pending
C21_Witness ==
    /\ Unknown \in models
    /\ \E c \in Callers :
          /\ pc[c] = "busy"
          /\ req[c] = 1
          /\ current_loaded = 1
          /\ is_loaded[1]
          /\ estimated_vram_gb[1] # DefaultEstimate(1)
    /\ idle_task \in {"created", "sleeping"}
    /\ in_use

C25_StatusNoGate ==
    /\ [](/\ ENABLED GetLoadedModels
          /\ \A t \in ModelTypes \cup {"none"} : ENABLED GetAvailableModels(t)
          /\ \A n \in Names : ENABLED GetModelInfo(n))
    /\ [][reply' # reply
            => (coordinator' = coordinator /\ registry' = registry)]_vars

\* get_loaded_models() has returned the resident model while the lock was
\* held, and the acquire of another model is now unloading it
C25_Witness ==
    /\ reply.op = "get_loaded_models"
    /\ reply.locked
    /\ reply.value # {}
    /\ thread.op = "unload"
    /\ \E c \in Callers : pc[c] = "unloading"

\* C23 as stated: a unit's loaded state changes only by a load() or unload()
\* that runs in the thread call of the task holding the gate (an acquire
\* past the gate, or the idle task in its sweep), and never during a session.
C23_GateSerializesUnitCalls ==
    [][is_loaded' # is_loaded
        => /\ lock_locked
           /\ thread.op # "none" /\ ~thread.done /\ thread'.done
           /\ IF thread.owner = IdleId THEN idle_task = "unloading"
                                       ELSE PastGate(thread.owner)
           /\ \A c \in Callers : pc[c] # "busy"]_vars

\* the idle task finds the timeout expired, the coordinator not in use and
\* something loaded, and goes on to "async with self._lock"
EvictorDecides ==
    /\ idle_task \in {"created", "sleeping"}
    /\ idle_task' \in {"unloading", "lockwait"}

\* _in_use changes only in a step of an acquire that takes the gate (it
\* becomes true) or that ends its session and releases the gate (it becomes
\* false)
BusyFollowsGate ==
    /\ (in_use' /\ ~in_use) =>
          \E c \in Callers :
              /\ pc[c] \in {"idle", "lockwait"}
              /\ PastGate(c)' \/ exit_kind' = "NotFound"
    /\ (~in_use' /\ in_use) =>
          /\ lock_locked /\ ~lock_locked'
          /\ \E c \in Callers : pc[c] = "busy" /\ pc'[c] = "idle"

C32_ResidentRegistered ==
    /\ current_loaded = None \/ current_loaded \in models
    /\ \A u \in Names : is_loaded[u] => u \in models

\* what an acquire may modify: _in_use, _last_used, the idle task,
\* _current_loaded, the units' loaded states, the thread calls, the lock
gated == <<in_use, last_used_age, idle_task, idle_tasks, sleep_left,
           current_loaded, is_loaded, thread, lock_locked>>

\* caller c is running with the gate in its hands: it is past the gate, or it
\* is taking the free gate as the first in line
HasGate(c) ==
    \/ PastGate(c)
    \/ pc[c] = "idle" /\ ~lock_locked /\ lock_waiters = <<>>
    \/ pc[c] = "lockwait" /\ ~lock_locked /\ Head(lock_waiters) = c

\* C33: an acquire that finds the gate taken joins the end of the gate's
\* queue and changes nothing else; while it waits no step of its own occurs;
\* and every step of an acquire that modifies _in_use, _last_used, the idle
\* task, _current_loaded, a unit's loaded state or the lock is made by a
\* caller that holds the gate or is taking it.
C33_WaitingChangesNothing ==
    [][\A c \in Callers :
         /\ (pc[c] = "idle" /\ pc'[c] = "lockwait")
                => /\ gated' = gated
                   /\ lock_waiters' = Append(lock_waiters, c)
                   /\ models' = models
         /\ (pc[c] = "lockwait" /\ pc'[c] = "lockwait")
                => req'[c] = req[c]
         /\ (pc'[c] # pc[c] /\ gated' # gated) => HasGate(c)]_vars

\* an acquire waits for the gate during another caller's session, after the
\* holder's load: the coordinator is as the holder left it
C33_Witness ==
    \E c, d \in Callers :
        /\ pc[c] = "lockwait"
        /\ pc[d] = "busy"
        /\ req[c] # req[d]
        /\ current_loaded = req[d]
        /\ in_use
        /\ lock_waiters = <<c>>

\* C34: a call of set_idle_timeout that changes idle_timeout changes nothing
\* else: the idle task is neither cancelled, created nor moved, _last_used,
\* _in_use and _current_loaded stay, no unit's loaded state changes and no
\* load() or unload() is started; the lock, its queue, the registry and the
\* callers are left alone.
C34_SetIdleTimeoutFrame ==
    [][idle_timeout' # idle_timeout
        => /\ idle_task' = idle_task
           /\ idle_tasks' = idle_tasks
           /\ sleep_left' = sleep_left
           /\ last_used_age' = last_used_age
           /\ in_use' = in_use
           /\ current_loaded' = current_loaded
           /\ is_loaded' = is_loaded
           /\ thread' = thread
           /\ lock_locked' = lock_locked
           /\ lock_waiters' = lock_waiters
           /\ registry' = registry
           /\ pc' = pc /\ req' = req]_vars

\* the timeout was set to zero while an idle task was pending and a model
\* resident: the task is still pending
C34_Witness ==
    /\ idle_timeout = 0
    /\ idle_task \in {"created", "sleeping"}
    /\ idle_tasks = 1
    /\ current_loaded # None

\* the status changes of a job: created as queued, started, then completed or
\* failed
JobMoves ==
    {<<"absent", "queued">>, <<"queued", "processing">>,
     <<"processing", "completed">>, <<"processing", "failed">>}

\* C35: a job's status changes only along queued -> processing -> completed
\* or failed, so a completed or failed status never changes; a job that is
\* queued or processing has a task running it and a completed job has its
\* row; when the acquire_gpu call of a job's task ends by an exception (of the
\* acquire or of the inference) the job is failed in that step; and after
\* every moment comes one at which no job is queued or processing, so that
\* every job that was queued has become completed or failed.
C35_JobStatusPath ==
    /\ [][\A j \in JobIds :
            video'.jobs[j] # video.jobs[j]
                => <<video.jobs[j], video'.jobs[j]>> \in JobMoves]_vars
    /\ [](\A j \in JobIds :
            /\ video.jobs[j] \in {"queued", "processing"}
                  => \E c \in Callers : JobOf(c) = j
            /\ video.jobs[j] \in {"completed", "failed"}
                  => \A c \in Callers : JobOf(c) # j
            /\ video.jobs[j] = "completed" => j \in video.rows)
    /\ [][\A c \in Callers :
            (/\ JobOf(c) # None
             /\ video.stage[c] \in {"added", "running"}
             /\ pc'[c] = "idle"
             /\ pc'[c] # pc[c] \/ video'.stage[c] # video.stage[c]
             /\ exit_kind' # "ok")
                => video'.jobs[JobOf(c)] = "failed"]_vars
    /\ []<>(\A j \in JobIds : video.jobs[j] \notin {"queued", "processing"})

\* two jobs ran concurrently: the first failed in its acquire or inference,
\* the second, which waited for the gate meanwhile, is completed
C35_Witness ==
    /\ video.jobs[1] = "failed"
    /\ video.jobs[2] = "completed"
    /\ video.rows = {2}
    /\ exit_kind = "ok"

====
